---- MODULE Spec2Model ----
(***************************************************************************)
(* Model of the authorization gate of the Coffee-Shop backend:             *)
(*   backend/src/auth/auth.py  (get_token_auth_header, verify_decode_jwt,  *)
(*                              check_permissions, requires_auth)          *)
(*   backend/src/api.py        (protected endpoint, error handlers)        *)
(* One request travels through the wrapper built by requires_auth; every   *)
(* step of the wrapper is one action.                                      *)
(***************************************************************************)
EXTENDS Integers, Sequences, FiniteSets, TLC

\* ------------------------------------------------------------------------
\* Bounds of the model
\* ------------------------------------------------------------------------
\* longest Authorization value, counted in chunks
MaxHeaderLen == 3
\* longest permissions array of a token payload
MaxPerms == 2
\* largest number of entries of the published key set
MaxKeys == 2
\* the verifier's clock reading when the token is decoded
Now == 1

\* ------------------------------------------------------------------------
\* Configuration constants of auth.py
\* ------------------------------------------------------------------------
AUTH0_DOMAIN == "starbucks-app.eu.auth0.com"
ALGORITHMS == {"RS256"}
API_AUDIENCE == "coffee"
\* "https://"+AUTH0_DOMAIN+"/"
ISSUER == "https://starbucks-app.eu.auth0.com/"

\* ------------------------------------------------------------------------
\* Values
\* ------------------------------------------------------------------------
Range(s) == {s[i] : i \in DOMAIN s}

RECURSIVE SeqsUpTo(_, _)
SeqsUpTo(S, n) ==
    IF n = 0 THEN {<<>>}
    ELSE LET shorter == SeqsUpTo(S, n - 1)
         IN  shorter \cup {Append(s, x) : s \in {t \in shorter : Len(t) = n - 1}, x \in S}

\* A function's result: a returned value or a raised exception.
Return(v) == [tag |-> "return", value |-> v]
Raise(e) == [tag |-> "raise", exc |-> e]

\* The two shapes of AuthError.error the code uses: a dict with 'code' and
\* 'description', or a bare string.
Dict(code, description) == [kind |-> "dict", code |-> code, description |-> description]
Str(s) == [kind |-> "str", value |-> s]

AuthError(error, status_code) ==
    [type |-> "AuthError", error |-> error, status_code |-> status_code]
\* exceptions of other classes, which no handler of the wrapper catches
Exception(type) == [type |-> type, error |-> Str(type), status_code |-> 0]
NoException == [type |-> "none", error |-> Str(""), status_code |-> 0]

\* the empty dict {} / the value None of a name not yet bound
Empty == <<>>
Truthy(d) == DOMAIN d # {}

\* ------------------------------------------------------------------------
\* Strings: an Authorization value is a sequence of chunks; a chunk is a
\* whitespace character or a run of non-whitespace characters.  Adjacent
\* non-whitespace chunks form one word.
\* ------------------------------------------------------------------------
Whitespace == {" "}
Chunk == {" ", "Bearer", "bEARER", "Basic", "tok"}

LowerChunk(c) ==
    CASE c = "Bearer" -> "bearer"
      [] c = "bEARER" -> "bearer"
      [] c = "Basic" -> "basic"
      [] OTHER -> c

\* str.lower()
lower(word) == [i \in DOMAIN word |-> LowerChunk(word[i])]

RECURSIVE SplitFrom(_, _, _)
SplitFrom(s, cur, acc) ==
    IF s = <<>> THEN (IF cur = <<>> THEN acc ELSE Append(acc, cur))
    ELSE IF Head(s) \in Whitespace
         THEN SplitFrom(Tail(s), <<>>, IF cur = <<>> THEN acc ELSE Append(acc, cur))
         ELSE SplitFrom(Tail(s), Append(cur, Head(s)), acc)

\* str.split(): the maximal runs of non-whitespace, in order
split(s) == SplitFrom(s, <<>>, <<>>)

\* ------------------------------------------------------------------------
\* auth.py: get_token_auth_header
\* ------------------------------------------------------------------------
MissingHeader == AuthError(Dict(401, "Missing authorization header."), 401)
MalformedScheme ==
    AuthError(Dict(401, "Authorization header must start with \"Bearer\"."), 401)
MalformedHeader == AuthError(Dict(402, "Invalid form of autherization token"), 401)

\* variant: request.headers.get('Authorization', '') instead of None
get_token_auth_header_default(headers) ==
    LET auth_header_components ==
            IF "Authorization" \in DOMAIN headers THEN split(headers["Authorization"]) ELSE <<>>
    IN  IF Len(auth_header_components) = 0
        THEN Raise(Exception("IndexError"))
        ELSE IF lower(auth_header_components[1]) # <<"bearer">>
        THEN Raise(MalformedScheme)
        ELSE IF Len(auth_header_components) # 2
        THEN Raise(MalformedHeader)
        ELSE Return(auth_header_components[2])

get_token_auth_header(headers) ==
    IF "Authorization" \notin DOMAIN headers
    THEN Raise(MissingHeader)
    ELSE LET auth_header_components == split(headers["Authorization"])
         IN  IF Len(auth_header_components) = 0
             \* auth_header_components[0] of an empty list
             THEN Raise(Exception("IndexError"))
             ELSE IF lower(auth_header_components[1]) # <<"bearer">>
             THEN Raise(MalformedScheme)
             ELSE IF Len(auth_header_components) # 2
             THEN Raise(MalformedHeader)
             ELSE Return(auth_header_components[2])

\* ------------------------------------------------------------------------
\* auth.py: check_permissions
\* ------------------------------------------------------------------------
PermissionsClaimMissing == AuthError(Str("Permissions not included in JWT"), 400)
PermissionDenied == AuthError(Dict(401, "Unautherized to use the service."), 401)

\* variant: the membership test is left out
check_permissions_lax(permission, payload) ==
    IF "permissions" \notin DOMAIN payload
    THEN Raise(PermissionsClaimMissing)
    ELSE Return(TRUE)

\* variant: only the first entry of the permissions array is compared
check_permissions_first(permission, payload) ==
    IF "permissions" \notin DOMAIN payload
    THEN Raise(PermissionsClaimMissing)
    ELSE IF payload["permissions"] = <<>> \/ permission # payload["permissions"][1]
    THEN Raise(PermissionDenied)
    ELSE Return(TRUE)

check_permissions(permission, payload) ==
    IF "permissions" \notin DOMAIN payload
    THEN Raise(PermissionsClaimMissing)
    ELSE IF permission \notin Range(payload["permissions"])
    THEN Raise(PermissionDenied)
    ELSE Return(TRUE)

\* ------------------------------------------------------------------------
\* The identity provider's key set and the tokens it signs.
\* A token is described by what the JOSE library finds in it: whether its
\* segments decode at all, its header, the key that signed it, its claims.
\* ------------------------------------------------------------------------
KeyIds == {"k1", "k2"}
Moduli == {"n1", "n2"}
Permissions == {"get:drinks-detail", "post:drinks", "patch:drinks"}

\* an entry of {"keys": [...]} as published by the identity provider
KeySetEntry(kid, n) ==
    [kty |-> "RSA", kid |-> kid, use |-> "sig", n |-> n, e |-> "AQAB", alg |-> "RS256"]
\* k1 appears with two moduli: the provider rotated the key behind a key id
KeySetEntries == {KeySetEntry("k1", "n1"), KeySetEntry("k2", "n2"), KeySetEntry("k1", "n2")}

\* the remote end of urlopen: unreachable, or serving a key set
Unavailable == [ok |-> FALSE, keys |-> <<>>]
Serving(keys) == [ok |-> TRUE, keys |-> keys]

Claims(nbf, exp, aud, iss) == [nbf |-> nbf, exp |-> exp, aud |-> aud, iss |-> iss]
WithPermissions(claims, perms) == claims @@ [permissions |-> perms]

Token(structure, header, signedBy, claims) ==
    [structure |-> structure, header |-> header, signedBy |-> signedBy, claims |-> claims]

\* ------------------------------------------------------------------------
\* auth.py: verify_decode_jwt, step by step
\* ------------------------------------------------------------------------
MissingKeyId == AuthError(Dict(401, "Missing argument."), 401)
TokenExpired == AuthError(Dict(401, "Token has expired."), 401)
ClaimsInvalid ==
    AuthError(Dict(401, "Incorrect claims. Please, check the audience and issuer."), 401)
TokenUnparseable == AuthError(Dict(400, "Unable to parse authentication token."), 400)
NoTokenProvided == AuthError(Dict(400, "No token was provided."), 400)

\* urlopen(...) and json.loads(jsonJWKS.read()): a transport error is raised
\* to the caller as it is
\* variant: a transport error is swallowed and an empty key set used
fetch_jwks_swallow(server) ==
    Return([keys |-> server.keys])

fetch_jwks(server) ==
    IF server.ok THEN Return([keys |-> server.keys]) ELSE Raise(Exception("URLError"))

\* jwt.get_unverified_header(token): JWTError when the header segment cannot
\* be decoded, and then the 'kid' test of verify_decode_jwt
get_unverified_header(tok) ==
    IF tok.structure = "garbled"
    THEN Raise(Exception("JWTError"))
    ELSE IF "kid" \notin DOMAIN tok.header
    THEN Raise(MissingKeyId)
    ELSE Return(tok.header)

\* the body of: for key in jwks['keys']
RSAKeyOf(key) ==
    [kty |-> key.kty, kid |-> key.kid, use |-> key.use, n |-> key.n, e |-> key.e]

\* variant: the first key of the set is used when no key id matches
RECURSIVE match_key_fallback(_, _, _)
match_key_fallback(keys, kid, RSA_key) ==
    IF keys = <<>> THEN RSA_key
    ELSE match_key_fallback(Tail(keys), kid,
                            IF Head(keys).kid = kid \/ RSA_key = Empty
                            THEN RSAKeyOf(Head(keys)) ELSE RSA_key)

RECURSIVE match_key(_, _, _)
match_key(keys, kid, RSA_key) ==
    IF keys = <<>> THEN RSA_key
    ELSE match_key(Tail(keys), kid,
                   IF Head(keys).kid = kid THEN RSAKeyOf(Head(keys)) ELSE RSA_key)

\* jwt.decode(token, RSA_key, algorithms, audience, issuer) of python-jose:
\* algorithm and signature first, then the payload, then nbf, exp, aud, iss
\* variant: the expiry claim is not validated
jwt_decode_noexp(tok, key, algorithms, audience, issuer) ==
    IF tok.header.alg \notin algorithms THEN Raise(Exception("JWTError"))
    ELSE IF tok.signedBy # key.n THEN Raise(Exception("JWTError"))
    ELSE IF tok.structure = "badPayload" THEN Raise(Exception("JWTError"))
    ELSE IF tok.claims.nbf > Now THEN Raise(Exception("JWTClaimsError"))
    ELSE IF tok.claims.aud # audience THEN Raise(Exception("JWTClaimsError"))
    ELSE IF tok.claims.iss # issuer THEN Raise(Exception("JWTClaimsError"))
    ELSE Return(tok.claims)

jwt_decode(tok, key, algorithms, audience, issuer) ==
    IF tok.header.alg \notin algorithms THEN Raise(Exception("JWTError"))
    ELSE IF tok.signedBy # key.n THEN Raise(Exception("JWTError"))
    ELSE IF tok.structure = "badPayload" THEN Raise(Exception("JWTError"))
    ELSE IF tok.claims.nbf > Now THEN Raise(Exception("JWTClaimsError"))
    ELSE IF tok.claims.exp < Now THEN Raise(Exception("ExpiredSignatureError"))
    ELSE IF tok.claims.aud # audience THEN Raise(Exception("JWTClaimsError"))
    ELSE IF tok.claims.iss # issuer THEN Raise(Exception("JWTClaimsError"))
    ELSE Return(tok.claims)

\* the try/except around jwt.decode
decode_payload(tok, RSA_key) ==
    LET r == jwt_decode(tok, RSA_key, ALGORITHMS, API_AUDIENCE, ISSUER)
    IN  IF r.tag = "return" THEN r
        ELSE IF r.exc.type = "ExpiredSignatureError" THEN Raise(TokenExpired)
        ELSE IF r.exc.type = "JWTClaimsError" THEN Raise(ClaimsInvalid)
        ELSE Raise(TokenUnparseable)

\* ------------------------------------------------------------------------
\* api.py: the translation of a raised exception into a response
\* ------------------------------------------------------------------------
\* error['description'], or default_text when indexing raises TypeError
get_error_message(error, default_text) ==
    IF error.kind = "dict" THEN error.description ELSE default_text

Response(status, body) == [status |-> status, body |-> body]
NoResponse == Response(0, Empty)

\* @app.errorhandler(AuthError)
unautherized(error) ==
    Response(error.status_code,
             [success |-> FALSE, error |-> error.status_code,
              message |-> get_error_message(error.error, "Unautherized")])

\* an exception no handler is registered for: the framework answers 500
InternalServerError ==
    Response(500, [success |-> FALSE, error |-> 500, message |-> "Internal Server Error"])

handle_exception(e) ==
    IF e.type = "AuthError" THEN unautherized(e) ELSE InternalServerError

\* ------------------------------------------------------------------------
\* State of one request
\* ------------------------------------------------------------------------
VARIABLES
    request,            \* the incoming request: [headers |-> name -> value]
    permission,         \* the permission the endpoint's decorator requires
    jwt,                \* what the token string carried by the request holds
    server,             \* the identity provider, as urlopen finds it
    pc,                 \* position of the request inside wrapper()
    token,              \* wrapper: token
    jwks,               \* verify_decode_jwt: jwks
    unverified_header,  \* verify_decode_jwt: unverified_header
    RSA_key,            \* verify_decode_jwt: RSA_key
    payload,            \* wrapper: payload
    raised,             \* the exception travelling out of wrapper(), if any
    response,           \* the response sent back
    called,             \* whether f(payload, ...) was invoked
    trace               \* the steps executed so far, in order

vars == <<request, permission, jwt, server, pc, token, jwks, unverified_header,
          RSA_key, payload, raised, response, called, trace>>

inputs == <<request, permission, jwt, server>>

\* the permissions the decorators of api.py require
Endpoints == {"get:drinks-detail", "post:drinks", "patch:drinks", "delete:drinks"}

StepOrder == <<"extract", "fetch", "header", "match", "decode", "check">>

\* ------------------------------------------------------------------------
\* The requests, tokens and key sets the model draws from
\* ------------------------------------------------------------------------
Algs == {"RS256", "HS256"}
JoseHeaders == {[alg |-> a] : a \in Algs} \cup {[alg |-> a, kid |-> k] : a \in Algs, k \in KeyIds}
ExpValues == 0..(Now + 1)
NbfValues == {0, Now + 1}
BaseClaims == {Claims(b, x, a, i) : b \in NbfValues, x \in ExpValues, a \in {API_AUDIENCE, "tea"},
                                    i \in {ISSUER, "https://evil.example/"}}

NoAuthorization == [headers |-> Empty]
Authorization(value) == [headers |-> [Authorization |-> value]]

GoodToken ==
    Token("ok", [alg |-> "RS256", kid |-> "k1"], "n1",
          WithPermissions(Claims(0, Now + 1, API_AUDIENCE, ISSUER), <<"get:drinks-detail">>))
GoodServer == Serving(<<KeySetEntry("k1", "n1")>>)

\* any Authorization value, or none, carrying a token that would verify
InitHeaders ==
    /\ request \in {NoAuthorization} \cup {Authorization(v) : v \in SeqsUpTo(Chunk, MaxHeaderLen)}
    /\ permission \in {"get:drinks-detail", "post:drinks"}
    /\ jwt = GoodToken
    /\ server \in {Unavailable, GoodServer}

\* any token against any key set, under a well-formed Authorization value
InitTokens ==
    /\ request \in {Authorization(<<"Bearer", " ", "tok">>), Authorization(<<"bEARER", " ", "tok">>)}
    /\ permission \in {"get:drinks-detail", "post:drinks"}
    /\ jwt \in {Token(s, h, n, c) :
                    s \in {"garbled", "badPayload", "ok"}, h \in JoseHeaders, n \in Moduli,
                    c \in BaseClaims \cup {WithPermissions(b, <<"get:drinks-detail">>) : b \in BaseClaims}}
    /\ server \in {Unavailable} \cup {Serving(ks) : ks \in SeqsUpTo(KeySetEntries, MaxKeys)}

\* any permissions claim against any endpoint, in a token that verifies
InitPermissions ==
    /\ request = Authorization(<<"Bearer", " ", "tok">>)
    /\ permission \in Endpoints
    /\ \E c \in {Claims(0, Now + 1, API_AUDIENCE, ISSUER)} \cup
                {WithPermissions(Claims(0, Now + 1, API_AUDIENCE, ISSUER), ps) :
                     ps \in SeqsUpTo(Permissions, MaxPerms)} :
           jwt = Token("ok", [alg |-> "RS256", kid |-> "k1"], "n1", c)
    /\ server = GoodServer

Init ==
    /\ InitHeaders \/ InitTokens \/ InitPermissions
    /\ pc = "extract"
    /\ token = Empty
    /\ jwks = Empty
    /\ unverified_header = Empty
    /\ RSA_key = Empty
    /\ payload = Empty
    /\ raised = NoException
    /\ response = NoResponse
    /\ called = FALSE
    /\ trace = <<>>

\* ------------------------------------------------------------------------
\* auth.py: requires_auth, wrapper().  An exception raised by a step leaves
\* the wrapper at once: the wrapper has no try/except.
\* ------------------------------------------------------------------------
\* variant: the wrapper catches the exception and carries on
Advance_swallow(outcome, next) == next

Advance(outcome, next) == IF outcome.tag = "raise" THEN "raise" ELSE next

Raised(outcome) == IF outcome.tag = "raise" THEN outcome.exc ELSE raised

\* token = get_token_auth_header()
GetTokenAuthHeader ==
    /\ pc = "extract"
    /\ LET r == get_token_auth_header(request.headers)
       IN  /\ token' = IF r.tag = "return" THEN r.value ELSE token
           /\ raised' = Raised(r)
           /\ pc' = Advance(r, "fetch")
    /\ trace' = Append(trace, "extract")
    /\ UNCHANGED <<inputs, jwks, unverified_header, RSA_key, payload, response, called>>

\* verify_decode_jwt: jsonJWKS = urlopen(...); jwks = json.loads(...)
FetchJWKS ==
    /\ pc = "fetch"
    /\ LET r == fetch_jwks(server)
       IN  /\ jwks' = IF r.tag = "return" THEN r.value ELSE jwks
           /\ raised' = Raised(r)
           /\ pc' = Advance(r, "header")
    /\ trace' = Append(trace, "fetch")
    /\ UNCHANGED <<inputs, token, unverified_header, RSA_key, payload, response, called>>

\* verify_decode_jwt: unverified_header = jwt.get_unverified_header(token)
\* and the test for 'kid'
GetUnverifiedHeader ==
    /\ pc = "header"
    /\ LET r == get_unverified_header(jwt)
       IN  /\ unverified_header' = IF r.tag = "return" THEN r.value ELSE unverified_header
           /\ raised' = Raised(r)
           /\ pc' = Advance(r, "match")
    /\ trace' = Append(trace, "header")
    /\ UNCHANGED <<inputs, token, jwks, RSA_key, payload, response, called>>

\* verify_decode_jwt: the loop over jwks['keys'] and the test of RSA_key
MatchKey ==
    /\ pc = "match"
    /\ LET key == match_key(jwks.keys, unverified_header.kid, Empty)
           r == IF Truthy(key) THEN Return(key) ELSE Raise(NoTokenProvided)
       IN  /\ RSA_key' = key
           /\ raised' = Raised(r)
           /\ pc' = Advance(r, "decode")
    /\ trace' = Append(trace, "match")
    /\ UNCHANGED <<inputs, token, jwks, unverified_header, payload, response, called>>

\* verify_decode_jwt: payload = jwt.decode(...) inside try/except
Decode ==
    /\ pc = "decode"
    /\ LET r == decode_payload(jwt, RSA_key)
       IN  /\ payload' = IF r.tag = "return" THEN r.value ELSE payload
           /\ raised' = Raised(r)
           /\ pc' = Advance(r, "check")
    /\ trace' = Append(trace, "decode")
    /\ UNCHANGED <<inputs, token, jwks, unverified_header, RSA_key, response, called>>

\* check_permissions(permission, payload)
CheckPermissions ==
    /\ pc = "check"
    /\ LET r == check_permissions(permission, payload)
       IN  /\ raised' = Raised(r)
           /\ pc' = Advance(r, "call")
    /\ trace' = Append(trace, "check")
    /\ UNCHANGED <<inputs, token, jwks, unverified_header, RSA_key, payload, response, called>>

\* return f(payload, *args, **kwargs): api.py get_detailed_drinks
CallEndpoint ==
    /\ pc = "call"
    /\ called' = TRUE
    /\ response' = Response(200, [success |-> TRUE])
    /\ pc' = "done"
    /\ UNCHANGED <<inputs, token, jwks, unverified_header, RSA_key, payload, raised, trace>>

\* the exception reaches the application's error handlers
HandleException ==
    /\ pc = "raise"
    /\ response' = handle_exception(raised)
    /\ pc' = "done"
    /\ UNCHANGED <<inputs, token, jwks, unverified_header, RSA_key, payload, raised, called, trace>>

Next ==
    \/ GetTokenAuthHeader
    \/ FetchJWKS
    \/ GetUnverifiedHeader
    \/ MatchKey
    \/ Decode
    \/ CheckPermissions
    \/ CallEndpoint
    \/ HandleException

Spec == Init /\ [][Next]_vars

\* ------------------------------------------------------------------------
\* Properties.  The conditions below are stated on the inputs of the
\* request, not on the results the steps computed from them.
\* ------------------------------------------------------------------------
Executed(step) == step \in Range(trace)
Finished == pc = "done"
Failing == pc \in {"raise", "done"} /\ raised # NoException

IsPrefix(s, t) == Len(s) <= Len(t) /\ \A i \in DOMAIN s : s[i] = t[i]

HasAuthorization == "Authorization" \in DOMAIN request.headers
Words == split(request.headers["Authorization"])

\* the Authorization value is "Bearer <token>", in any letter case
HeaderCarriesToken ==
    /\ HasAuthorization
    /\ Len(Words) = 2
    /\ lower(Words[1]) = <<"bearer">>

DeclaresKid == jwt.structure # "garbled" /\ "kid" \in DOMAIN jwt.header

\* the positions of the key set that carry the token's key id
MatchingKeys == {i \in DOMAIN server.keys : server.keys[i].kid = jwt.header.kid}
\* the loop keeps the last of them
LastMatch == CHOOSE i \in MatchingKeys : \A j \in MatchingKeys : j <= i

\* decoding gets as far as the validation of the exp claim
ReachesExpiryCheck ==
    /\ server.ok
    /\ DeclaresKid
    /\ MatchingKeys # {}
    /\ jwt.header.alg = "RS256"
    /\ jwt.signedBy = server.keys[LastMatch].n
    /\ jwt.structure = "ok"
    /\ jwt.claims.nbf <= Now

Expired == jwt.claims.exp < Now

TokenVerifies ==
    /\ ReachesExpiryCheck
    /\ ~Expired
    /\ jwt.claims.aud = "coffee"
    /\ jwt.claims.iss = "https://starbucks-app.eu.auth0.com/"

PermissionGranted ==
    /\ "permissions" \in DOMAIN jwt.claims
    /\ \E i \in DOMAIN jwt.claims.permissions : jwt.claims.permissions[i] = permission

\* C1: the protected operation is invoked only if, in the same request,
\* get_token_auth_header returned a token, verify_decode_jwt returned the
\* claims of that token and check_permissions succeeded for the endpoint's
\* permission; once any step has failed, the operation is never invoked.
C1_CalledOnlyWhenAuthorized ==
    /\ called =>
         /\ HeaderCarriesToken /\ token = Words[2]
         /\ TokenVerifies /\ payload = jwt.claims
         /\ PermissionGranted
         /\ raised = NoException
         /\ trace = StepOrder
    /\ raised # NoException => ~called
    /\ (Finished /\ ~(HeaderCarriesToken /\ TokenVerifies /\ PermissionGranted)) =>
         ~called /\ response.status # 200

C1_Witness == Finished /\ called /\ response.status = 200 /\ PermissionGranted

\* C2: a request without the Authorization field fails with MissingHeader,
\* an AuthError of status 401, and the protected operation is not invoked.
C2_MissingHeader ==
    ~HasAuthorization =>
        /\ ~called
        /\ IsPrefix(trace, <<"extract">>)
        /\ Executed("extract") =>
             /\ raised = AuthError(Dict(401, "Missing authorization header."), 401)
             /\ raised.status_code = 401
        /\ Finished => response.status = 401

C2_Witness == ~HasAuthorization /\ Finished /\ raised.status_code = 401 /\ ~called

\* C3 (as claimed): for every Authorization value that is present, also an
\* empty or whitespace-only one, get_token_auth_header fails with
\* MalformedScheme if the first word is not "bearer" in any letter case,
\* else with MalformedHeader if there are not exactly two words, else
\* returns the second word; there is no other outcome.
C3_ExtractOutcomes ==
    (HasAuthorization /\ trace = <<"extract">>) =>
        IF Len(Words) = 0 \/ lower(Words[1]) # <<"bearer">>
        THEN raised = MalformedScheme /\ raised.status_code = 401
        ELSE IF Len(Words) # 2
        THEN raised = MalformedHeader /\ raised.status_code = 401
        ELSE raised = NoException /\ token = Words[2]

\* C4 (as claimed): a token that is structurally malformed, badly signed or
\* signed with an algorithm other than RS256 fails with TokenUnparseable,
\* status 400.  Stated for the tokens that get past the key-id steps, which
\* have failures of their own, and for the tokens whose header is malformed.
BadlySigned ==
    \/ jwt.header.alg # "RS256"
    \/ jwt.signedBy # server.keys[LastMatch].n
    \/ jwt.structure = "badPayload"

C4_Unparseable ==
    (/\ HeaderCarriesToken
     /\ server.ok
     /\ \/ jwt.structure = "garbled"
        \/ DeclaresKid /\ MatchingKeys # {} /\ BadlySigned
     /\ Finished)
    => /\ raised = TokenUnparseable
       /\ response.status = 400

\* C5 (as claimed): a token whose expiry is in the past fails with
\* TokenExpired, status 401.  Stated for the well-formed tokens of a request
\* whose key set was fetched.
C5_ExpiredAlways ==
    (HeaderCarriesToken /\ server.ok /\ jwt.structure = "ok" /\ Expired /\ Finished)
    => raised = TokenExpired

\* C5 (amended): a token whose expiry is in the past never yields a claim
\* mapping, and it fails with TokenExpired, status 401, whenever decoding
\* gets as far as the expiry check.
C5_Expired ==
    (HeaderCarriesToken /\ Expired) =>
        /\ payload = Empty
        /\ ~called
        /\ (ReachesExpiryCheck /\ Executed("decode")) =>
             /\ raised = AuthError(Dict(401, "Token has expired."), 401)
             /\ Finished => response.status = 401
        /\ (Finished /\ raised = TokenExpired) => ReachesExpiryCheck

C5_Witness ==
    Finished /\ Expired /\ ReachesExpiryCheck /\ raised = TokenExpired /\ response.status = 401

\* C6: check_permissions fails with PermissionsClaimMissing (status 400)
\* when the claims have no 'permissions', with PermissionDenied (status 401)
\* when the required string is not among the permissions, and succeeds
\* otherwise; only the set of permission strings matters, and the claims
\* are left as they were decoded.
SameSet(p, q) == \A x \in Permissions \cup Endpoints : (x \in Range(p)) = (x \in Range(q))

C6_CheckPermissions ==
    Executed("check") =>
        /\ payload = jwt.claims
        /\ IF "permissions" \notin DOMAIN jwt.claims
           THEN /\ raised = AuthError(Str("Permissions not included in JWT"), 400)
                /\ ~called
           ELSE /\ IF \A i \in DOMAIN jwt.claims.permissions : jwt.claims.permissions[i] # permission
                   THEN /\ raised = AuthError(Dict(401, "Unautherized to use the service."), 401)
                        /\ ~called
                   ELSE raised = NoException /\ pc \in {"call", "done"}
                /\ \A q \in SeqsUpTo(Permissions, MaxPerms) :
                       SameSet(q, jwt.claims.permissions) =>
                           check_permissions(permission, [payload EXCEPT !["permissions"] = q])
                             = check_permissions(permission, payload)

C6_Witness ==
    /\ Executed("check")
    /\ "permissions" \in DOMAIN payload
    /\ Len(payload["permissions"]) = 2
    /\ payload["permissions"][1] # permission
    /\ payload["permissions"][2] = permission
    /\ raised = NoException

\* C7: under a well-formed Authorization value, a failed fetch of the key
\* set ends the gate with that failure, it is answered with a 5xx status,
\* and the protected operation does not run.
C7_KeySetUnavailable ==
    (HeaderCarriesToken /\ ~server.ok) =>
        /\ ~called
        /\ payload = Empty
        /\ IsPrefix(trace, <<"extract", "fetch">>)
        /\ Executed("fetch") => raised = Exception("URLError")
        /\ Finished => response.status \in 500..599

C7_Witness ==
    HeaderCarriesToken /\ ~server.ok /\ Finished /\ response.status = 500 /\ ~called

\* C8 (as claimed): every AuthError raised inside the gate carries a status
\* and a description, and the response has that status as its status code
\* and that description as its message.
DescriptionOf(error) == IF error.kind = "dict" THEN error.description ELSE error.value

C8_ResponseRendersFailure ==
    (Finished /\ raised.type = "AuthError") =>
        /\ response.status = raised.status_code
        /\ response.body.message = DescriptionOf(raised.error)

\* C9: when the token declares a key id that no entry of the fetched key
\* set carries, decoding is not attempted and the failure is
\* NoTokenProvided, status 400; decoding is attempted only with an entry
\* that carries the token's key id, and no claim mapping is returned for a
\* token whose key id is absent from the key set.
C9_UnknownKeyId ==
    /\ (HeaderCarriesToken /\ server.ok /\ DeclaresKid /\ MatchingKeys = {}) =>
         /\ ~Executed("decode")
         /\ payload = Empty
         /\ ~called
         /\ Executed("match") => raised = AuthError(Dict(400, "No token was provided."), 400)
         /\ Finished => response.status = 400
    /\ Executed("decode") =>
         /\ DeclaresKid
         /\ \E i \in MatchingKeys :
                /\ RSA_key.kid = jwt.header.kid
                /\ RSA_key.n = server.keys[i].n

C9_Witness ==
    /\ HeaderCarriesToken /\ server.ok /\ DeclaresKid
    /\ server.keys # <<>> /\ MatchingKeys = {}
    /\ Finished /\ raised = NoTokenProvided

\* C10: the gate is a linear pipeline: the steps run at most once each and
\* in the order extract, fetch, header, match, decode, check; the step that
\* fails ends the gate with a failure of its own, and no step runs after it.
FailuresOf(step) ==
    CASE step = "extract" ->
             {MissingHeader, MalformedScheme, MalformedHeader, Exception("IndexError")}
      [] step = "fetch" -> {Exception("URLError")}
      [] step = "header" -> {Exception("JWTError"), MissingKeyId}
      [] step = "match" -> {NoTokenProvided}
      [] step = "decode" -> {TokenExpired, ClaimsInvalid, TokenUnparseable}
      [] step = "check" -> {PermissionsClaimMissing, PermissionDenied}

C10_LinearPipeline ==
    /\ [](IsPrefix(trace, StepOrder))
    /\ [][/\ raised # NoException => (trace' = trace /\ raised' = raised /\ ~called')
          /\ (raised = NoException /\ raised' # NoException) =>
               /\ Len(trace') = Len(trace) + 1
               /\ raised' \in FailuresOf(trace'[Len(trace')])
               /\ pc' = "raise"]_vars

C10_Witness ==
    Finished /\ raised = MissingKeyId /\ trace = <<"extract", "fetch", "header">>

====
